---- MODULE Spec2Model ----
(***************************************************************************)
(* Model of tensorflow/core/data/service/worker_client.cc:                 *)
(*   ByteBlockChecker          the bandwidth throttle                      *)
(*   DataServiceWorkerClient   the session (lazy initialisation)           *)
(*   GrpcDataTransferClient    the network client                          *)
(*   LocalDataTransferClient   the in-process client                       *)
(* Every thread runs one call at a time; pc[t] names the source line the   *)
(* thread is at, frame[t] holds the locals of the call.  A mutex is a      *)
(* variable holding the thread that owns it.                               *)
(***************************************************************************)
EXTENDS Integers, Sequences, FiniteSets, TLC

\* ------------------------------------------------------------------ bounds
\* Calls (session GetElement / TryCancel, or direct throttle calls) started
\* in one behaviour.
MaxCalls == 2
\* Components carried by one uncompressed response.
MaxComponents == 2
\* Largest value of the microsecond clock in the throttle specification.
MaxTime == 6
\* Largest byte count handed to one direct throttle call.
MaxBytes == 3

Threads == {"t1", "t2"}
Sessions == {"s1", "s2"}
NoThread == "none"

\* ------------------------------------------------------- program constants
kGrpcTransferProtocol == "grpc"
kLocalTransferProtocol == "local"
\* A protocol name for which no factory was registered.
kUnregisteredProtocol == "other"
TransferProtocols ==
  {kGrpcTransferProtocol, kLocalTransferProtocol, kUnregisteredProtocol}

\* config.max_bandwidth_bps values a session is built with: unlimited (0)
\* and 16 Mbit/s (2 bytes per microsecond).
Bandwidths == {0, 16000000}

SessionConfigs ==
  {<<kGrpcTransferProtocol, bw>> : bw \in Bandwidths}
  \cup {<<p, 0>> : p \in TransferProtocols \ {kGrpcTransferProtocol}}

\* ByteBlockChecker::check_block_size_ (declared in worker_client.h).
check_block_size_ == 2

\* address_ of a session (constructor argument; fixed per session).
address_(s) == "w1"
Addresses == {address_(s) : s \in Sessions}

\* ----------------------------------------------------------------- state
VARIABLES
  local_workers,         \* LocalWorkers registry: addresses with a worker
  transfer_protocol_,    \* DataServiceWorkerClient::transfer_protocol_
  max_bandwidth_bps_,    \* DataServiceWorkerClient::max_bandwidth_bps_
  client_,               \* DataServiceWorkerClient::client_ (0 = nullptr)
  session_mu,            \* DataServiceWorkerClient::mu_ owner
  clients,               \* every DataTransferClient constructed so far
  g_byte_block_checker,  \* the global shared_ptr (0 = nullptr)
  checkers,              \* every ByteBlockChecker constructed so far
  now,                   \* EnvTime::NowMicros()
  crashed,               \* "no", or the undefined behaviour that ended the
                         \* process (the thread that ran into it is at "abort")
  pc,                    \* per thread: where it is in the code
  frame,                 \* per thread: the locals of its call
  calls                  \* number of calls started

vars == <<local_workers, transfer_protocol_, max_bandwidth_bps_, client_,
          session_mu, clients, g_byte_block_checker, checkers, now, crashed,
          pc, frame, calls>>

sessionCfg == <<transfer_protocol_, max_bandwidth_bps_>>

\* ------------------------------------------------------------- responses
RECURSIVE SeqsUpTo(_, _)
SeqsUpTo(S, n) ==
  IF n = 0 THEN {<<>>}
  ELSE LET shorter == SeqsUpTo(S, n - 1)
       IN shorter \cup {Append(q, x) : q \in {r \in shorter : Len(r) = n - 1}, x \in S}

\* The element of a GetElementResponse: element_case() and, when
\* uncompressed, its components; a component either parses ("good") or
\* does not ("bad").
EmptyResponse == [element_case |-> "ELEMENT_NOT_SET", components |-> <<>>]
Responses ==
  {EmptyResponse, [element_case |-> "kCompressed", components |-> <<>>]}
  \cup {[element_case |-> "kUncompressed", components |-> q] :
          q \in SeqsUpTo({"good", "bad"}, MaxComponents)}

\* req.ByteSizeLong()
ReqByteSize == 1
\* resp.ByteSizeLong()
RespByteSize(resp) ==
  IF resp.element_case = "kCompressed" THEN 1 ELSE Len(resp.components)

\* Tensor::FromProto(component)
FromProto(component) == component = "good"

\* ----------------------------------------------------------------- frames
\* The address of a grpc::ClientContext on the stack of thread t is <<t, k>>;
\* NoCtx stands for "no ctx constructed".
NoCtx == <<NoThread, 0>>

IdleFrame ==
  [op |-> "none", sess |-> "s1", cl |-> 0, ctx |-> NoCtx, ctx_cancelled |-> FALSE,
   s |-> "OK", resp |-> EmptyResponse, components |-> <<>>, status |-> "OK",
   protocol |-> "none", checker |-> 0, bytes |-> 0, wake |-> 0,
   \* history of the call, read by the properties only
   after_cancel |-> FALSE, cancel_seen |-> FALSE, throttled |-> 0,
   worker_status |-> "none"]

Init ==
  /\ local_workers = {}
  /\ \E cfg \in [Sessions -> SessionConfigs] :
       /\ transfer_protocol_ = [s \in Sessions |-> cfg[s][1]]
       /\ max_bandwidth_bps_ = [s \in Sessions |-> cfg[s][2]]
  /\ client_ = [s \in Sessions |-> 0]
  /\ session_mu = [s \in Sessions |-> NoThread]
  /\ clients = <<>>
  /\ g_byte_block_checker = 0
  /\ checkers = <<>>
  /\ now = 0
  /\ crashed = "no"
  /\ pc = [t \in Threads |-> "idle"]
  /\ frame = [t \in Threads |-> IdleFrame]
  /\ calls = 0

\* ------------------------------------------------------------ helpers
Running == crashed = "no"

SetFrame(t, f) == [frame EXCEPT ![t] = f]

\* The locals of a call end with it: what the caller keeps is the status and
\* the result (and the history of the call).
Return(f, status) ==
  [f EXCEPT !.status = status, !.ctx = NoCtx, !.ctx_cancelled = FALSE,
            !.s = "OK", !.resp = EmptyResponse, !.checker = 0, !.bytes = 0,
            !.wake = 0]

\* mutex_lock l(mu_) can be taken when no thread owns mu_.
MutexFree(owner) == owner = NoThread

\* --------------------------------------------------- external: LocalWorkers
\* LocalWorkers::Add(address, worker), called by a worker server starting
\* in this process.
AddLocalWorker(a) ==
  /\ Running
  /\ a \notin local_workers
  /\ local_workers' = local_workers \cup {a}
  /\ UNCHANGED <<sessionCfg, client_, session_mu, clients, g_byte_block_checker,
                 checkers, now, crashed, pc, frame, calls>>

\* LocalWorkers::Remove(address), called by a worker server stopping.
RemoveLocalWorker(a) ==
  /\ Running
  /\ a \in local_workers
  /\ local_workers' = local_workers \ {a}
  /\ UNCHANGED <<sessionCfg, client_, session_mu, clients, g_byte_block_checker,
                 checkers, now, crashed, pc, frame, calls>>

\* LocalWorkers::Get(address) != nullptr
LocalWorkersGet(a) == a \in local_workers

\* ------------------------------------------- DataServiceWorkerClient (session)
\* A caller thread enters DataServiceWorkerClient::GetElement(req, result)
\* with a fresh request and an empty result; a thread at "ret" has returned
\* from its previous call and is free to start the next.
StartGetElement(t, s) ==
  /\ Running
  /\ pc[t] \in {"idle", "ret"}
  /\ calls < MaxCalls
  /\ calls' = calls + 1
  /\ frame' = SetFrame(t, [IdleFrame EXCEPT !.op = "GetElement", !.sess = s])
  /\ pc' = [pc EXCEPT ![t] = "ei_lock"]
  /\ UNCHANGED <<local_workers, sessionCfg, client_, session_mu, clients,
                 g_byte_block_checker, checkers, now, crashed>>

\* A caller thread enters DataServiceWorkerClient::TryCancel().
StartTryCancel(t, s) ==
  /\ Running
  /\ pc[t] \in {"idle", "ret"}
  /\ calls < MaxCalls
  /\ calls' = calls + 1
  /\ frame' = SetFrame(t, [IdleFrame EXCEPT !.op = "TryCancel", !.sess = s])
  /\ pc' = [pc EXCEPT ![t] = "tc_deref"]
  /\ UNCHANGED <<local_workers, sessionCfg, client_, session_mu, clients,
                 g_byte_block_checker, checkers, now, crashed>>

\* EnsureInitialized: mutex_lock l(mu_) waits until the session lock is free.
\* (EnsureInitialized entered without waiting for the lock.)
SessionLockIgnored(s) == TRUE
SessionLockFree(s) == MutexFree(session_mu[s])

EI_Lock(t) ==
  LET s == frame[t].sess IN
  /\ Running
  /\ pc[t] = "ei_lock"
  /\ SessionLockFree(s)
  /\ session_mu' = [session_mu EXCEPT ![s] = t]
  /\ pc' = [pc EXCEPT ![t] = "ei_check"]
  /\ UNCHANGED <<local_workers, sessionCfg, client_, clients,
                 g_byte_block_checker, checkers, now, crashed, frame, calls>>

\* EnsureInitialized: if (client_) return OK; the lock is released on return.
EI_Check(t) ==
  LET s == frame[t].sess IN
  /\ Running
  /\ pc[t] = "ei_check"
  /\ IF client_[s] # 0
       THEN /\ session_mu' = [session_mu EXCEPT ![s] = NoThread]
            /\ pc' = [pc EXCEPT ![t] = "deleg"]
       ELSE /\ pc' = [pc EXCEPT ![t] = "ei_build"]
            /\ UNCHANGED session_mu
  /\ UNCHANGED <<local_workers, sessionCfg, client_, clients,
                 g_byte_block_checker, checkers, now, crashed, frame, calls>>

\* DataServiceWorkerClient::GetDataTransferProtocol
\* (The configured protocol, with no look at the local-worker registry.)
ProtocolAsConfigured(s) == transfer_protocol_[s]
GetDataTransferProtocol(s) ==
  IF transfer_protocol_[s] = kGrpcTransferProtocol /\ LocalWorkersGet(address_(s))
    THEN kLocalTransferProtocol
    ELSE transfer_protocol_[s]

\* The factories registered by LocalTransferClientRegistrar and
\* GrpcTransferClientRegistrar.
RegisteredProtocols == {kGrpcTransferProtocol, kLocalTransferProtocol}

\* make_unique<LocalDataTransferClient>(config.address)
NewLocalClient(s) ==
  [kind |-> kLocalTransferProtocol, worker_address |-> address_(s),
   cancelled_ |-> FALSE, active_contexts_ |-> {}, byte_block_checker_ |-> 0,
   mu |-> NoThread, owner |-> s, try_cancel_returned |-> FALSE]

\* make_unique<GrpcDataTransferClient>(credentials, address, checker)
NewGrpcClient(s, checker) ==
  [kind |-> kGrpcTransferProtocol, worker_address |-> address_(s),
   cancelled_ |-> FALSE, active_contexts_ |-> {}, byte_block_checker_ |-> checker,
   mu |-> NoThread, owner |-> s, try_cancel_returned |-> FALSE]

\* make_shared<ByteBlockChecker>(max_bandwidth_bps)
NewChecker(bw) ==
  [max_bandwidth_bps_ |-> bw, sum_total_bytes_ |-> 0,
   prev_call_time_micros_ |-> now, mu |-> NoThread,
   \* history, read by the properties only
   created |-> now, recorded |-> 0, blocks |-> 0, sleeps |-> 0]

\* EnsureInitialized: DataTransferClient::Build(GetDataTransferProtocol(), ...),
\* up to the point where the factory found by name starts to run.  The local
\* factory constructs its client at once; the gRPC factory first asks
\* CredentialsFactory::CreateClientCredentials, which may fail.
EI_Build(t) ==
  LET s == frame[t].sess
      chosen == GetDataTransferProtocol(s)
      failed == /\ session_mu' = [session_mu EXCEPT ![s] = NoThread]
                /\ pc' = [pc EXCEPT ![t] = "ret"]
                /\ frame' = SetFrame(t, Return(
                     [frame[t] EXCEPT !.protocol = chosen], "NOT_FOUND"))
                /\ UNCHANGED <<client_, clients>>
  IN
  /\ Running
  /\ pc[t] = "ei_build"
  /\ \/ /\ chosen \notin RegisteredProtocols
        /\ failed
     \/ /\ chosen = kLocalTransferProtocol
        /\ clients' = Append(clients, NewLocalClient(s))
        /\ client_' = [client_ EXCEPT ![s] = Len(clients) + 1]
        /\ session_mu' = [session_mu EXCEPT ![s] = NoThread]
        /\ pc' = [pc EXCEPT ![t] = "deleg"]
        /\ frame' = SetFrame(t, [frame[t] EXCEPT !.protocol = chosen])
     \/ /\ chosen = kGrpcTransferProtocol
        /\ \/ failed
           \/ /\ pc' = [pc EXCEPT ![t] = "f_check"]
              /\ frame' = SetFrame(t, [frame[t] EXCEPT !.protocol = chosen])
              /\ UNCHANGED <<session_mu, client_, clients>>
  /\ UNCHANGED <<local_workers, sessionCfg, g_byte_block_checker, checkers,
                 now, crashed, calls>>

\* Another thread is at an access of g_byte_block_checker in the factory.
RacingOnChecker(t) ==
  \E u \in Threads \ {t} : pc[u] \in {"f_check", "f_make", "f_new"}

\* gRPC factory: if (g_byte_block_checker == nullptr && max_bandwidth_bps > 0)
F_Check(t) ==
  LET s == frame[t].sess IN
  /\ Running
  /\ pc[t] = "f_check"
  /\ pc' = [pc EXCEPT ![t] =
              IF g_byte_block_checker = 0 /\ max_bandwidth_bps_[s] > 0
                THEN "f_make" ELSE "f_new"]
  /\ UNCHANGED <<local_workers, sessionCfg, client_, session_mu, clients,
                 g_byte_block_checker, checkers, now, crashed, frame, calls>>

\* gRPC factory: g_byte_block_checker = make_shared<ByteBlockChecker>(...).
\* The global is written with no lock held that another session's thread
\* would take: a write racing with another access is undefined behaviour,
\* which either passes unnoticed or ends the process.
F_Make(t) ==
  LET s == frame[t].sess IN
  /\ Running
  /\ pc[t] = "f_make"
  /\ \/ /\ checkers' = Append(checkers, NewChecker(max_bandwidth_bps_[s]))
        /\ g_byte_block_checker' = Len(checkers) + 1
        /\ pc' = [pc EXCEPT ![t] = "f_new"]
        /\ UNCHANGED crashed
     \/ /\ RacingOnChecker(t)
        /\ crashed' = "data race on g_byte_block_checker"
        /\ pc' = [pc EXCEPT ![t] = "abort"]
        /\ UNCHANGED <<checkers, g_byte_block_checker>>
  /\ UNCHANGED <<local_workers, sessionCfg, client_, session_mu, clients, now,
                 frame, calls>>

\* gRPC factory: *out = make_unique<GrpcDataTransferClient>(credentials,
\* config.address, g_byte_block_checker); Build stores it in client_ and
\* EnsureInitialized returns OK, releasing the session lock.
F_New(t) ==
  LET s == frame[t].sess IN
  /\ Running
  /\ pc[t] = "f_new"
  /\ clients' = Append(clients, NewGrpcClient(s, g_byte_block_checker))
  /\ client_' = [client_ EXCEPT ![s] = Len(clients) + 1]
  /\ session_mu' = [session_mu EXCEPT ![s] = NoThread]
  /\ pc' = [pc EXCEPT ![t] = "deleg"]
  /\ UNCHANGED <<local_workers, sessionCfg, g_byte_block_checker, checkers,
                 now, crashed, frame, calls>>

\* DataServiceWorkerClient::GetElement: return client_->GetElement(req, result)
Deleg(t) ==
  LET s == frame[t].sess
      c == client_[s]
  IN
  /\ Running
  /\ pc[t] = "deleg"
  /\ frame' = SetFrame(t, [frame[t] EXCEPT
                 !.cl = c, !.after_cancel = clients[c].try_cancel_returned])
  /\ pc' = [pc EXCEPT ![t] =
              IF clients[c].kind = kGrpcTransferProtocol THEN "g_lock1" ELSE "l_lock"]
  /\ UNCHANGED <<local_workers, sessionCfg, client_, session_mu, clients,
                 g_byte_block_checker, checkers, now, crashed, calls>>

\* ------------------------------------------------------ client mutexes
ClientLockFree(c) == MutexFree(clients[c].mu)

LockClient(c, t) == [clients EXCEPT ![c].mu = t]

\* Taking GrpcDataTransferClient::mu_ / LocalDataTransferClient::mu_ at pc
\* `at`, continuing at `next` with the lock held.
AcquireClientLock(t, at, next) ==
  LET c == frame[t].cl IN
  /\ Running
  /\ pc[t] = at
  /\ ClientLockFree(c)
  /\ clients' = LockClient(c, t)
  /\ pc' = [pc EXCEPT ![t] = next]
  /\ UNCHANGED <<local_workers, sessionCfg, client_, session_mu,
                 g_byte_block_checker, checkers, now, crashed, frame, calls>>

\* ------------------------------------------------- GrpcDataTransferClient
\* Every ctx address held by an active_contexts_ set.
AllActive == UNION {clients[c].active_contexts_ : c \in 1..Len(clients)}

\* The pcs at which the grpc::ClientContext ctx of a GetElement call exists.
CtxLivePcs ==
  {"g_lock2", "g_reg", "g_rpc", "t_lock", "t_add", "t_sleep", "g_decode",
   "g_lock3", "g_erase"}

\* The ClientContext at address h exists.
Live(h) == \E u \in Threads : frame[u].ctx = h /\ pc[u] \in CtxLivePcs

\* The address of `grpc::ClientContext ctx;` in a new call of thread t: an
\* address no set holds, or the address of an earlier ctx of the same thread
\* that a set still holds (the stack slot is used again).
RECURSIVE FreshCtx(_, _)
FreshCtx(t, k) == IF <<t, k>> \in AllActive THEN FreshCtx(t, k + 1) ELSE <<t, k>>
CtxAddresses(t) == {FreshCtx(t, 1)} \cup {h \in AllActive : h[1] = t}

\* GetElement: { mutex_lock l(mu_); if (cancelled_) return Cancelled; }
G_Lock1(t) == AcquireClientLock(t, "g_lock1", "g_check")

\* if (cancelled_): the flag as the check reads it.
\* (CheckSkipped: a check that never sees the flag.)
CheckSkipped(c) == FALSE
IsCancelled(c) == clients[c].cancelled_

G_Check(t) ==
  LET c == frame[t].cl IN
  /\ Running
  /\ pc[t] = "g_check"
  /\ clients' = [clients EXCEPT ![c].mu = NoThread]
  /\ IF IsCancelled(c)
       THEN /\ frame' = SetFrame(t, Return(frame[t], "CANCELLED"))
            /\ pc' = [pc EXCEPT ![t] = "ret"]
       ELSE /\ \E h \in CtxAddresses(t) :
                 frame' = SetFrame(t, [frame[t] EXCEPT !.ctx = h])
            /\ pc' = [pc EXCEPT ![t] = "g_lock2"]
  /\ UNCHANGED <<local_workers, sessionCfg, client_, session_mu,
                 g_byte_block_checker, checkers, now, crashed, calls>>

\* GetElement: { mutex_lock l(mu_); active_contexts_.insert(&ctx); }
G_Lock2(t) == AcquireClientLock(t, "g_lock2", "g_reg")

\* active_contexts_.insert(&ctx); the closing brace ends the mutex_lock.
\* (InsertKeepingLock: the scope of the lock running on over the remote call.)
InsertKeepingLock(c, h) ==
  [clients EXCEPT ![c].active_contexts_ = @ \cup {h}]
InsertAndUnlock(c, h) ==
  [clients EXCEPT ![c].active_contexts_ = @ \cup {h}, ![c].mu = NoThread]

G_Reg(t) ==
  LET c == frame[t].cl IN
  /\ Running
  /\ pc[t] = "g_reg"
  /\ clients' = InsertAndUnlock(c, frame[t].ctx)
  /\ pc' = [pc EXCEPT ![t] = "g_rpc"]
  /\ UNCHANGED <<local_workers, sessionCfg, client_, session_mu,
                 g_byte_block_checker, checkers, now, crashed, frame, calls>>

\* What stub_->GetElement(&ctx, req, &resp) can return: with ctx cancelled
\* the call ends CANCELLED; otherwise the worker answers OK with a response,
\* or the transport fails.  A call that is not OK leaves resp empty.
RpcOutcomes(ctx_cancelled) ==
  IF ctx_cancelled
    THEN {[s |-> "CANCELLED", resp |-> EmptyResponse]}
    ELSE {[s |-> "OK", resp |-> r] : r \in Responses}
         \cup {[s |-> "UNAVAILABLE", resp |-> EmptyResponse]}

\* if (byte_block_checker_ != nullptr): the test made once the remote call
\* has returned s; it does not look at s.
\* (ThrottleOnSuccess: the throttle called for an OK remote call only.)
ThrottleOnSuccess(c, s) == clients[c].byte_block_checker_ # 0 /\ s = "OK"
ThrottleCalled(c, s) == clients[c].byte_block_checker_ # 0

\* GetElement: grpc::Status s = stub_->GetElement(&ctx, req, &resp) returns;
\* if (byte_block_checker_ != nullptr) the throttle is called next.
G_Rpc(t) ==
  LET c == frame[t].cl
      k == clients[c].byte_block_checker_
  IN
  /\ Running
  /\ pc[t] = "g_rpc"
  /\ \E o \in RpcOutcomes(frame[t].ctx_cancelled) :
       /\ frame' = SetFrame(t, [frame[t] EXCEPT
                  !.s = o.s, !.resp = o.resp, !.checker = k,
                  !.bytes = IF ThrottleCalled(c, o.s)
                              THEN RespByteSize(o.resp) + ReqByteSize ELSE 0])
       /\ pc' = [pc EXCEPT ![t] =
                   IF ThrottleCalled(c, o.s) THEN "t_lock" ELSE "g_decode"]
  /\ UNCHANGED <<local_workers, sessionCfg, client_, session_mu, clients,
                 g_byte_block_checker, checkers, now, crashed, calls>>

\* The index of the first component that does not parse, 0 when all parse.
RECURSIVE FirstBad(_, _)
FirstBad(comps, i) ==
  IF i > Len(comps) THEN 0
  ELSE IF ~FromProto(comps[i]) THEN i ELSE FirstBad(comps, i + 1)

\* result.components after the switch on resp.element_case(): one variant
\* for a compressed element; for an uncompressed one, emplace_back() then
\* FromProto() per component, stopping at the first that fails.
DecodedComponents(resp) ==
  IF resp.element_case = "kCompressed" THEN <<"variant">>
  ELSE IF resp.element_case = "kUncompressed"
    THEN LET bad == FirstBad(resp.components, 1)
             n == IF bad = 0 THEN Len(resp.components) ELSE bad
         IN [i \in 1..n |-> IF i = bad THEN "unparsed" ELSE "tensor"]
    ELSE <<>>

ParseFails(resp) ==
  resp.element_case = "kUncompressed" /\ FirstBad(resp.components, 1) # 0

\* GetElement: the result is filled from resp; a component that does not
\* parse returns Internal from inside the loop.
G_Decode(t) ==
  /\ Running
  /\ pc[t] = "g_decode"
  /\ IF ParseFails(frame[t].resp)
       THEN /\ frame' = SetFrame(t, Return(
                 [frame[t] EXCEPT !.components = DecodedComponents(frame[t].resp)],
                 "INTERNAL"))
            /\ pc' = [pc EXCEPT ![t] = "ret"]
       ELSE /\ frame' = SetFrame(t, [frame[t] EXCEPT
                 !.components = DecodedComponents(frame[t].resp),
                 !.resp = EmptyResponse])
            /\ pc' = [pc EXCEPT ![t] = "g_lock3"]
  /\ UNCHANGED <<local_workers, sessionCfg, client_, session_mu, clients,
                 g_byte_block_checker, checkers, now, crashed, calls>>

\* GetElement: { mutex_lock l(mu_); active_contexts_.erase(&ctx); }
G_Lock3(t) == AcquireClientLock(t, "g_lock3", "g_erase")

\* grpc_util::WrapError keeps the code of s.
\* (ErrorDropped: the status of the remote call lost, OK returned.)
ErrorDropped(s) == "OK"
WrapError(s) == s

\* ... then if (!s.ok()) return WrapError(...); return OK.
G_Erase(t) ==
  LET c == frame[t].cl IN
  /\ Running
  /\ pc[t] = "g_erase"
  /\ clients' = [clients EXCEPT
       ![c].active_contexts_ = @ \ {frame[t].ctx}, ![c].mu = NoThread]
  /\ frame' = SetFrame(t, Return(frame[t],
       IF frame[t].s # "OK" THEN WrapError(frame[t].s) ELSE "OK"))
  /\ pc' = [pc EXCEPT ![t] = "ret"]
  /\ UNCHANGED <<local_workers, sessionCfg, client_, session_mu,
                 g_byte_block_checker, checkers, now, crashed, calls>>

\* ----------------------------------------------------- ByteBlockChecker
\* Direct throttle calls started in one behaviour of the throttle
\* specification.
MaxThrottleCalls == 4

\* int64_t expected_sleep_time =
\*   sum_total_bytes_ * 8.0 / (max_bandwidth_bps_ / (1000.0 * 1000.0));
\* the conversion to int64_t drops the fraction.
ExpectedSleepTime(sum, bw) == (sum * 8 * 1000000) \div bw

\* Where a thread continues after AddAndSleepCheck returns.
AfterThrottle(t) == IF frame[t].op = "GetElement" THEN "g_decode" ELSE "ret"

\* AddAndSleepCheck: mutex_lock l(mu_)
T_Lock(t) ==
  LET k == frame[t].checker IN
  /\ Running
  /\ pc[t] = "t_lock"
  /\ MutexFree(checkers[k].mu)
  /\ checkers' = [checkers EXCEPT ![k].mu = t]
  /\ pc' = [pc EXCEPT ![t] = "t_add"]
  /\ UNCHANGED <<local_workers, sessionCfg, client_, session_mu, clients,
                 g_byte_block_checker, now, crashed, frame, calls>>

\* The block is complete: sum_total_bytes_ >= check_block_size_.
\* (BlockExceeded: the test written with > in place of >=.)
BlockExceeded(sum) == sum > check_block_size_
BlockReached(sum) == sum >= check_block_size_

\* The shortfall slept: expected_sleep_time - elapsed when positive, else 0.
SleepMicros(sum, bw, elapsed) ==
  IF ExpectedSleepTime(sum, bw) > elapsed
    THEN ExpectedSleepTime(sum, bw) - elapsed ELSE 0

\* AddAndSleepCheck: sum_total_bytes_ += total_bytes; below the block size
\* the call returns; otherwise it sleeps the shortfall (lock held), or with
\* no shortfall resets the sum and the timestamp at once.
T_Add(t) ==
  LET k == frame[t].checker
      ck == checkers[k]
      sum == ck.sum_total_bytes_ + frame[t].bytes
      elapsed == now - ck.prev_call_time_micros_
      sleep == SleepMicros(sum, ck.max_bandwidth_bps_, elapsed)
      counted == [ck EXCEPT !.sum_total_bytes_ = sum,
                            !.recorded = @ + frame[t].bytes]
  IN
  /\ Running
  /\ pc[t] = "t_add"
  /\ IF ~BlockReached(sum)
       THEN /\ checkers' = [checkers EXCEPT ![k] = [counted EXCEPT !.mu = NoThread]]
            /\ pc' = [pc EXCEPT ![t] = AfterThrottle(t)]
            /\ frame' = SetFrame(t, [frame[t] EXCEPT
                   !.throttled = @ + 1, !.checker = 0, !.bytes = 0, !.wake = 0])
       ELSE IF sleep > 0
         THEN /\ checkers' = [checkers EXCEPT ![k] = [counted EXCEPT !.sleeps = @ + 1]]
              /\ pc' = [pc EXCEPT ![t] = "t_sleep"]
              /\ frame' = SetFrame(t, [frame[t] EXCEPT !.wake = now + sleep])
         ELSE /\ checkers' = [checkers EXCEPT ![k] =
                   [counted EXCEPT !.sum_total_bytes_ = 0,
                                   !.prev_call_time_micros_ = now,
                                   !.blocks = @ + 1, !.mu = NoThread]]
              /\ pc' = [pc EXCEPT ![t] = AfterThrottle(t)]
              /\ frame' = SetFrame(t, [frame[t] EXCEPT
                   !.throttled = @ + 1, !.checker = 0, !.bytes = 0, !.wake = 0])
  /\ UNCHANGED <<local_workers, sessionCfg, client_, session_mu, clients,
                 g_byte_block_checker, now, crashed, calls>>

\* AddAndSleepCheck: SleepForMicroseconds returns, no earlier than asked;
\* sum_total_bytes_ = 0; prev_call_time_micros_ = NowMicros(); return.
T_Wake(t) ==
  LET k == frame[t].checker
      woken == IF now < frame[t].wake THEN frame[t].wake ELSE now
  IN
  /\ Running
  /\ pc[t] = "t_sleep"
  /\ now' = woken
  /\ checkers' = [checkers EXCEPT ![k].sum_total_bytes_ = 0,
                                  ![k].prev_call_time_micros_ = woken,
                                  ![k].blocks = @ + 1, ![k].mu = NoThread]
  /\ pc' = [pc EXCEPT ![t] = AfterThrottle(t)]
  /\ frame' = SetFrame(t, [frame[t] EXCEPT
                   !.throttled = @ + 1, !.checker = 0, !.bytes = 0, !.wake = 0])
  /\ UNCHANGED <<local_workers, sessionCfg, client_, session_mu, clients,
                 g_byte_block_checker, crashed, calls>>

\* ------------------------------------------------------------- TryCancel
\* DataServiceWorkerClient::TryCancel: client_->TryCancel(), client_ read
\* with no lock held.  With client_ == nullptr the call is undefined
\* behaviour: the process ends, or the call returns having done nothing.
TryCancelOnNull(t) ==
  \/ /\ crashed' = "TryCancel through null client_"
     /\ pc' = [pc EXCEPT ![t] = "abort"]
     /\ UNCHANGED frame
  \/ /\ pc' = [pc EXCEPT ![t] = "ret"]
     /\ UNCHANGED <<crashed, frame>>

TC_Deref(t) ==
  LET c == client_[frame[t].sess] IN
  /\ Running
  /\ pc[t] = "tc_deref"
  /\ IF c = 0
       THEN TryCancelOnNull(t)
       ELSE /\ frame' = SetFrame(t, [frame[t] EXCEPT !.cl = c])
            /\ pc' = [pc EXCEPT ![t] = "c_lock"]
            /\ UNCHANGED crashed
  /\ UNCHANGED <<local_workers, sessionCfg, client_, session_mu, clients,
                 g_byte_block_checker, checkers, now, calls>>

\* GrpcDataTransferClient::TryCancel / LocalDataTransferClient::TryCancel:
\* mutex_lock l(mu_)
C_Lock(t) == AcquireClientLock(t, "c_lock", "c_body")

\* The pcs of a gRPC GetElement call whose remote call has not returned.
InFlightPcs == {"g_lock1", "g_check", "g_lock2", "g_reg", "g_rpc"}

\* The ctx addresses TryCancel calls ctx->TryCancel() on.
CancelledContexts(c) ==
  IF clients[c].kind = kGrpcTransferProtocol
    THEN clients[c].active_contexts_ ELSE {}

\* cancelled_ = true; for (ctx : active_contexts_) ctx->TryCancel();
\* ctx->TryCancel() on the address of a ClientContext that no longer exists
\* is undefined behaviour: the process ends, or nothing is noticed.
C_Body(t) ==
  LET c == frame[t].cl
      hit == CancelledContexts(c)
  IN
  /\ Running
  /\ pc[t] = "c_body"
  /\ \/ /\ clients' = [clients EXCEPT ![c].cancelled_ = TRUE,
                                      ![c].try_cancel_returned = TRUE,
                                      ![c].mu = NoThread]
        /\ frame' = [u \in Threads |->
             IF u = t THEN frame[t]
             ELSE [frame[u] EXCEPT
               !.ctx_cancelled =
                  @ \/ (frame[u].ctx \in hit /\ pc[u] \in CtxLivePcs),
               !.cancel_seen =
                  @ \/ (frame[u].cl = c /\ pc[u] \in InFlightPcs)]]
        /\ pc' = [pc EXCEPT ![t] = "ret"]
        /\ UNCHANGED crashed
     \/ /\ \E h \in hit : ~Live(h)
        /\ crashed' = "TryCancel on a destroyed ClientContext"
        /\ pc' = [pc EXCEPT ![t] = "abort"]
        /\ UNCHANGED <<clients, frame>>
  /\ UNCHANGED <<local_workers, sessionCfg, client_, session_mu,
                 g_byte_block_checker, checkers, now, calls>>

\* ------------------------------------------------ LocalDataTransferClient
\* VerifyClientIsNotCancelled: mutex_lock l(mu_); if (cancelled_) return
\* Cancelled; return OK.
L_Lock(t) == AcquireClientLock(t, "l_lock", "l_verify")

\* VerifyClientIsNotCancelled returns: its mutex_lock goes out of scope.
\* (LockKeptAfterVerify: the lock still held when GetElement goes on.)
LockKeptAfterVerify(c) == clients
UnlockAfterVerify(c) == [clients EXCEPT ![c].mu = NoThread]

L_Verify(t) ==
  LET c == frame[t].cl IN
  /\ Running
  /\ pc[t] = "l_verify"
  /\ clients' = UnlockAfterVerify(c)
  /\ IF IsCancelled(c)
       THEN /\ frame' = SetFrame(t, Return(frame[t], "CANCELLED"))
            /\ pc' = [pc EXCEPT ![t] = "ret"]
       ELSE /\ pc' = [pc EXCEPT ![t] = "l_getworker"]
            /\ UNCHANGED frame
  /\ UNCHANGED <<local_workers, sessionCfg, client_, session_mu,
                 g_byte_block_checker, checkers, now, crashed, calls>>

\* GetWorker: worker = LocalWorkers::Get(worker_address_); if (!worker) ...
\* (WorkerAssumed: the lookup taken to succeed, its result not tested.)
WorkerAssumed(c) == TRUE
WorkerFound(c) == LocalWorkersGet(clients[c].worker_address)

\* GetWorker: LocalWorkers::Get(worker_address_); Cancelled when absent.
L_GetWorker(t) ==
  LET c == frame[t].cl IN
  /\ Running
  /\ pc[t] = "l_getworker"
  /\ IF WorkerFound(c)
       THEN /\ pc' = [pc EXCEPT ![t] = "l_call"]
            /\ UNCHANGED frame
       ELSE /\ frame' = SetFrame(t, Return(frame[t], "CANCELLED"))
            /\ pc' = [pc EXCEPT ![t] = "ret"]
  /\ UNCHANGED <<local_workers, sessionCfg, client_, session_mu, clients,
                 g_byte_block_checker, checkers, now, crashed, calls>>

\* What DataServiceWorkerImpl::GetElementResult(&req, &result) can return.
WorkerOutcomes ==
  {[status |-> "OK", components |-> <<"tensor">>],
   [status |-> "OK", components |-> <<>>],
   [status |-> "NOT_FOUND", components |-> <<>>]}

\* return worker->GetElementResult(&req, &result); the worker found is kept
\* alive by the shared_ptr and fills the caller's result itself.
L_Call(t) ==
  /\ Running
  /\ pc[t] = "l_call"
  /\ \E o \in WorkerOutcomes :
       frame' = SetFrame(t, [frame[t] EXCEPT
                  !.status = o.status, !.components = o.components,
                  !.worker_status = o.status])
  /\ pc' = [pc EXCEPT ![t] = "ret"]
  /\ UNCHANGED <<local_workers, sessionCfg, client_, session_mu, clients,
                 g_byte_block_checker, checkers, now, crashed, calls>>

\* ------------------------------------------------------- specifications
Next ==
  \/ \E a \in Addresses : AddLocalWorker(a) \/ RemoveLocalWorker(a)
  \/ \E t \in Threads, s \in Sessions : StartGetElement(t, s) \/ StartTryCancel(t, s)
  \/ \E t \in Threads :
       \/ EI_Lock(t) \/ EI_Check(t) \/ EI_Build(t)
       \/ F_Check(t) \/ F_Make(t) \/ F_New(t) \/ Deleg(t)
       \/ G_Lock1(t) \/ G_Check(t) \/ G_Lock2(t) \/ G_Reg(t) \/ G_Rpc(t)
       \/ T_Lock(t) \/ T_Add(t) \/ T_Wake(t)
       \/ G_Decode(t) \/ G_Lock3(t) \/ G_Erase(t)
       \/ TC_Deref(t) \/ C_Lock(t) \/ C_Body(t)
       \/ L_Lock(t) \/ L_Verify(t) \/ L_GetWorker(t) \/ L_Call(t)

Spec == Init /\ [][Next]_vars

\* ---------------------------------------------- the throttle on its own
\* max_bandwidth_bps of the throttle: 8 Mbit/s (1 byte per microsecond)
\* and 16 Mbit/s (2 bytes per microsecond).
ThrottleBandwidths == {8000000, 16000000}

\* A thread calls byte_block_checker_->AddAndSleepCheck(b) on the shared
\* throttle, as GrpcDataTransferClient::GetElement does after a remote call.
StartThrottleCall(t, b) ==
  /\ Running
  /\ pc[t] \in {"idle", "ret"}
  /\ calls < MaxThrottleCalls
  /\ calls' = calls + 1
  /\ frame' = SetFrame(t, [IdleFrame EXCEPT
       !.op = "AddAndSleepCheck", !.checker = g_byte_block_checker, !.bytes = b])
  /\ pc' = [pc EXCEPT ![t] = "t_lock"]
  /\ UNCHANGED <<local_workers, sessionCfg, client_, session_mu, clients,
                 g_byte_block_checker, checkers, now, crashed>>

\* A microsecond passes.
Tick ==
  /\ Running
  /\ now < MaxTime
  /\ now' = now + 1
  /\ UNCHANGED <<local_workers, sessionCfg, client_, session_mu, clients,
                 g_byte_block_checker, checkers, crashed, pc, frame, calls>>

\* The state after the gRPC factory made the throttle for a session with a
\* positive max_bandwidth_bps.
InitThrottle ==
  /\ local_workers = {}
  /\ \E bw \in ThrottleBandwidths :
       /\ transfer_protocol_ = [s \in Sessions |-> kGrpcTransferProtocol]
       /\ max_bandwidth_bps_ = [s \in Sessions |-> bw]
       /\ now = 0
       /\ checkers = <<NewChecker(bw)>>
  /\ client_ = [s \in Sessions |-> 0]
  /\ session_mu = [s \in Sessions |-> NoThread]
  /\ clients = <<>>
  /\ g_byte_block_checker = 1
  /\ crashed = "no"
  /\ pc = [t \in Threads |-> "idle"]
  /\ frame = [t \in Threads |-> IdleFrame]
  /\ calls = 0

NextThrottle ==
  \/ \E t \in Threads, b \in 1..MaxBytes : StartThrottleCall(t, b)
  \/ \E t \in Threads : T_Lock(t) \/ T_Add(t) \/ T_Wake(t)
  \/ Tick

SpecThrottle == InitThrottle /\ [][NextThrottle]_vars

\* ------------------------------------- one session, called and cancelled
\* Calls started in one behaviour of the one-session specification.
MaxSessionCalls == 3

\* The session whose callers the one-session specification follows.
TheSession == "s1"

\* A caller of the session enters GetElement / TryCancel.
CallGetElement(t) ==
  /\ Running
  /\ pc[t] \in {"idle", "ret"}
  /\ calls < MaxSessionCalls
  /\ calls' = calls + 1
  /\ frame' = SetFrame(t, [IdleFrame EXCEPT !.op = "GetElement", !.sess = TheSession])
  /\ pc' = [pc EXCEPT ![t] = "ei_lock"]
  /\ UNCHANGED <<local_workers, sessionCfg, client_, session_mu, clients,
                 g_byte_block_checker, checkers, now, crashed>>

CallTryCancel(t) ==
  /\ Running
  /\ pc[t] \in {"idle", "ret"}
  /\ calls < MaxSessionCalls
  /\ calls' = calls + 1
  /\ frame' = SetFrame(t, [IdleFrame EXCEPT !.op = "TryCancel", !.sess = TheSession])
  /\ pc' = [pc EXCEPT ![t] = "tc_deref"]
  /\ UNCHANGED <<local_workers, sessionCfg, client_, session_mu, clients,
                 g_byte_block_checker, checkers, now, crashed>>

\* The sessions as constructed, none with a bandwidth limit.
InitSession ==
  /\ Init
  /\ \A s \in Sessions : max_bandwidth_bps_[s] = 0
  /\ \A s \in Sessions \ {TheSession} : transfer_protocol_[s] = kGrpcTransferProtocol

NextSession ==
  \/ \E a \in Addresses : AddLocalWorker(a) \/ RemoveLocalWorker(a)
  \/ \E t \in Threads :
       \/ CallGetElement(t) \/ CallTryCancel(t)
       \/ EI_Lock(t) \/ EI_Check(t) \/ EI_Build(t)
       \/ F_Check(t) \/ F_New(t) \/ Deleg(t)
       \/ G_Lock1(t) \/ G_Check(t) \/ G_Lock2(t) \/ G_Reg(t) \/ G_Rpc(t)
       \/ G_Decode(t) \/ G_Lock3(t) \/ G_Erase(t)
       \/ TC_Deref(t) \/ C_Lock(t) \/ C_Body(t)
       \/ L_Lock(t) \/ L_Verify(t) \/ L_GetWorker(t) \/ L_Call(t)

SpecSession == InitSession /\ [][NextSession]_vars

\* ================================================================ claims
ClientIds == 1..Len(clients)
GrpcClients == {c \in ClientIds : clients[c].kind = kGrpcTransferProtocol}
ClientsOf(s) == {c \in ClientIds : clients[c].owner = s}
Returned(t) == pc[t] = "ret" /\ frame[t].op = "GetElement"

\* C1: for the gRPC and the local client alike, a GetElement call that
\* enters the client after a TryCancel() on it has returned comes back
\* Cancelled, and the flag a returned TryCancel() set is never cleared.
C1_CancelledAfterTryCancel ==
  /\ \A t \in Threads :
       (Returned(t) /\ frame[t].after_cancel) => frame[t].status = "CANCELLED"
  /\ \A t \in Threads :
       frame[t].after_cancel =>
         pc[t] \in {"g_lock1", "g_check", "l_lock", "l_verify", "ret"}
  /\ \A c \in ClientIds : clients[c].try_cancel_returned => clients[c].cancelled_

\* A GetElement that entered a cancelled gRPC client has returned Cancelled.
C1_Witness ==
  \E t \in Threads :
    /\ Returned(t) /\ frame[t].after_cancel /\ frame[t].status = "CANCELLED"
    /\ clients[frame[t].cl].kind = kGrpcTransferProtocol

\* C2: a gRPC GetElement call that had started, and whose remote call had
\* not returned, when TryCancel() ran has its ctx cancelled while it is in
\* the remote call, and returns Cancelled.
C2_InFlightCallIsCancelled ==
  \A t \in Threads :
    (frame[t].op = "GetElement" /\ frame[t].cancel_seen) =>
      /\ pc[t] = "g_rpc" => frame[t].ctx_cancelled
      /\ pc[t] = "ret" => frame[t].status = "CANCELLED"

\* The pcs of a gRPC GetElement call between insert(&ctx) and erase(&ctx).
RegisteredPcs ==
  {"g_rpc", "t_lock", "t_add", "t_sleep", "g_decode", "g_lock3", "g_erase"}

\* C3: active_contexts_ of a gRPC client holds exactly the ctx addresses of
\* the GetElement calls on it that have registered and not yet returned; no
\* address of a finished call stays behind.
C3_ActiveContextsAreRunningCalls ==
  \A c \in GrpcClients :
    /\ \A h \in clients[c].active_contexts_ :
         \E t \in Threads :
           frame[t].ctx = h /\ frame[t].cl = c /\ pc[t] \in RegisteredPcs
    /\ \A t \in Threads :
         (frame[t].cl = c /\ pc[t] \in RegisteredPcs) =>
           frame[t].ctx \in clients[c].active_contexts_

\* C4: a gRPC GetElement that fails with Internal (a component did not
\* parse) leaves none of the components it decoded in the caller's result.
C4_NoPartialComponents ==
  \A t \in Threads :
    (Returned(t) /\ frame[t].status = "INTERNAL") =>
      \A i \in 1..Len(frame[t].components) : frame[t].components[i] # "tensor"

\* C5: the step of DataServiceWorkerClient::TryCancel at client_->TryCancel()
\* returns with nothing changed when client_ was never set, and otherwise
\* goes on into that client's TryCancel().
C5_TryCancelBeforeInitIsNoOp ==
  [][\A t \in Threads :
       (pc[t] = "tc_deref" /\ pc'[t] # "tc_deref") =>
         IF client_[frame[t].sess] = 0
           THEN /\ pc'[t] = "ret"
                /\ crashed' = "no"
                /\ UNCHANGED <<client_, session_mu, clients,
                               g_byte_block_checker, checkers>>
           ELSE /\ pc'[t] = "c_lock"
                /\ frame'[t].cl = client_[frame[t].sess]]_vars

\* C6: a session constructs at most one transfer client, whatever the
\* interleaving of its GetElement calls, and every GetElement call of the
\* session is delegated to that client.
C6_OneClientPerSession ==
  \A s \in Sessions :
    /\ Cardinality(ClientsOf(s)) <= 1
    /\ client_[s] # 0 => ClientsOf(s) = {client_[s]}
    /\ \A t \in Threads :
         (frame[t].op = "GetElement" /\ frame[t].sess = s /\ frame[t].cl # 0) =>
           frame[t].cl = client_[s]

\* Two GetElement calls of one session are inside the same client at once.
C6_Witness ==
  \E t, u \in Threads :
    /\ t # u
    /\ frame[t].op = "GetElement" /\ frame[u].op = "GetElement"
    /\ frame[t].sess = frame[u].sess
    /\ pc[t] # "ret" /\ pc[u] # "ret"
    /\ frame[t].cl # 0 /\ frame[t].cl = frame[u].cl

\* C7: when EnsureInitialized builds the client, the protocol handed to
\* Build is the local one if the session is configured with gRPC and its
\* address is in the local-worker registry at that moment, and the
\* configured one otherwise; a build with the local protocol constructs a
\* local client and does not enter the gRPC factory.
C7_TransportSelection ==
  [][\A t \in Threads :
       (pc[t] = "ei_build" /\ pc'[t] # "ei_build") =>
         LET s == frame[t].sess
             expected ==
               IF transfer_protocol_[s] = kGrpcTransferProtocol
                    /\ address_(s) \in local_workers
                 THEN kLocalTransferProtocol ELSE transfer_protocol_[s]
         IN /\ frame'[t].protocol = expected
            /\ expected = kLocalTransferProtocol =>
                 /\ pc'[t] = "deleg"
                 /\ client_'[s] = Len(clients) + 1
                 /\ clients' = Append(clients, NewLocalClient(s))
            /\ expected # kLocalTransferProtocol =>
                 clients' = clients]_vars

\* A session configured with gRPC holds a local client.
C7_Witness ==
  \E s \in Sessions :
    /\ transfer_protocol_[s] = kGrpcTransferProtocol
    /\ client_[s] # 0
    /\ clients[client_[s]].kind = kLocalTransferProtocol

\* C8: a gRPC client built for a session whose max bandwidth is <= 0 holds
\* no throttle, and no GetElement call on it is inside AddAndSleepCheck.
C8_UnlimitedClientHasNoThrottle ==
  \A c \in GrpcClients :
    max_bandwidth_bps_[clients[c].owner] <= 0 =>
      /\ clients[c].byte_block_checker_ = 0
      /\ \A t \in Threads :
           frame[t].cl = c => pc[t] \notin {"t_lock", "t_add", "t_sleep"}

\* C9: at most one ByteBlockChecker is ever constructed, and the gRPC
\* clients built for sessions with a positive max bandwidth all hold it.
C9_OneSharedThrottle ==
  /\ Len(checkers) <= 1
  /\ \A c \in GrpcClients :
       max_bandwidth_bps_[clients[c].owner] > 0 =>
         clients[c].byte_block_checker_ = 1

\* C10: whenever no AddAndSleepCheck call is under way, the bytes recorded
\* by a throttle since it was made, as bits, are at most max_bandwidth_bps
\* times the time since then plus one block:
\*   recorded * 8 <= max_bandwidth_bps * elapsed / 10^6 + check_block_size_ * 8
C10_AverageWithinOneBlock ==
  \A k \in 1..Len(checkers) :
    checkers[k].mu = NoThread =>
      checkers[k].recorded * 8 * 1000000
        <= checkers[k].max_bandwidth_bps_ * (now - checkers[k].created)
           + check_block_size_ * 8 * 1000000

\* C11 (as stated): over every sequence of AddAndSleepCheck calls, the calls
\* that reset sum_total_bytes_ are exactly the calls that slept: whenever no
\* call is under way, as many resets as sleeps have happened.
C11_ResetIffSleep ==
  \A k \in 1..Len(checkers) :
    checkers[k].mu = NoThread => checkers[k].blocks = checkers[k].sleeps

\* C11 (amended): a call resets sum_total_bytes_ exactly when the sum it
\* reaches is at least check_block_size_, whether or not it then sleeps: a
\* call below the block size leaves the sum it reached and the timestamp, a
\* call at or above it ends with sum 0 and the timestamp at the time of its
\* return, and a call that sleeps is one of the latter.  Between calls the
\* sum is therefore always below the block size.
C11_ResetIffBlockReached ==
  /\ [](\A k \in 1..Len(checkers) :
         /\ checkers[k].mu = NoThread =>
              checkers[k].sum_total_bytes_ < check_block_size_
         /\ checkers[k].sleeps <= checkers[k].blocks + 1)
  /\ [][\A t \in Threads :
         LET k == frame[t].checker
             reached == checkers[k].sum_total_bytes_ + frame[t].bytes
         IN /\ (pc[t] = "t_add" /\ pc'[t] = "t_sleep") =>
                 /\ reached >= check_block_size_
                 /\ checkers'[k].sum_total_bytes_ = reached
                 /\ checkers'[k].mu = t
            /\ (pc[t] = "t_add" /\ pc'[t] \notin {"t_add", "t_sleep"}) =>
                 IF reached >= check_block_size_
                   THEN /\ checkers'[k].sum_total_bytes_ = 0
                        /\ checkers'[k].prev_call_time_micros_ = now'
                        /\ checkers'[k].blocks = checkers[k].blocks + 1
                   ELSE /\ checkers'[k].sum_total_bytes_ = reached
                        /\ checkers'[k].prev_call_time_micros_
                             = checkers[k].prev_call_time_micros_
                        /\ checkers'[k].blocks = checkers[k].blocks
            /\ (pc[t] = "t_sleep" /\ pc'[t] # "t_sleep") =>
                 /\ checkers'[k].sum_total_bytes_ = 0
                 /\ checkers'[k].prev_call_time_micros_ = now'
                 /\ checkers'[k].blocks = checkers[k].blocks + 1]_vars

\* A call has reset the sum without sleeping, and another has slept.
C11_Witness ==
  \E k \in 1..Len(checkers) :
    /\ checkers[k].mu = NoThread
    /\ checkers[k].sleeps > 0
    /\ checkers[k].blocks > checkers[k].sleeps

LocalClients == {c \in ClientIds : clients[c].kind = kLocalTransferProtocol}
InLocalClient(t) ==
  frame[t].op = "GetElement" /\ frame[t].cl \in LocalClients

\* C12: a GetElement call on the local client that looks its worker up while
\* the registry has none for worker_address_ returns Cancelled without
\* calling GetElementResult, also when a worker was there for earlier calls;
\* a call that finds a worker (the client not being cancelled) calls
\* GetElementResult once and returns the status and the components it gave.
C12_LocalCallFollowsRegistry ==
  /\ [](\A t \in Threads :
         (InLocalClient(t) /\ pc[t] = "ret") =>
           IF frame[t].worker_status = "none"
             THEN frame[t].status = "CANCELLED" /\ frame[t].components = <<>>
             ELSE /\ frame[t].status = frame[t].worker_status
                  /\ ~frame[t].after_cancel
                  /\ [status |-> frame[t].status,
                      components |-> frame[t].components] \in WorkerOutcomes)
  /\ [][\A t \in Threads :
         /\ (pc[t] = "l_getworker" /\ pc'[t] # "l_getworker") =>
              IF clients[frame[t].cl].worker_address \in local_workers
                THEN pc'[t] = "l_call" /\ frame'[t] = frame[t]
                ELSE /\ pc'[t] = "ret"
                     /\ frame'[t].status = "CANCELLED"
                     /\ frame'[t].worker_status = "none"
         /\ (pc[t] = "l_call" /\ pc'[t] # "l_call") =>
              /\ pc'[t] = "ret"
              /\ frame[t].worker_status = "none"
              /\ frame'[t].worker_status = frame'[t].status]_vars

\* On a local client that is not cancelled and that a session configured
\* with gRPC built (so a worker was registered then), one call was served by
\* the worker and another found the registry empty and returned Cancelled.
C12_Witness ==
  \E t, u \in Threads :
    /\ InLocalClient(t) /\ InLocalClient(u) /\ frame[t].cl = frame[u].cl
    /\ transfer_protocol_[clients[frame[t].cl].owner] = kGrpcTransferProtocol
    /\ ~clients[frame[t].cl].cancelled_
    /\ pc[t] = "ret" /\ frame[t].worker_status = "OK"
    /\ pc[u] = "ret" /\ frame[u].worker_status = "none"
    /\ frame[u].status = "CANCELLED"
    /\ local_workers = {}

\* C13: a TryCancel() on a client on which a TryCancel() has already
\* returned completes and leaves the client as the first one left it: the
\* cancelled flag stays set and active_contexts_ is the same set (so later
\* GetElement calls are answered as after the first).
C13_TryCancelIdempotent ==
  [][\A t \in Threads :
       LET c == frame[t].cl IN
       (pc[t] = "c_body" /\ pc'[t] # "c_body" /\ clients[c].try_cancel_returned) =>
         /\ crashed' = "no"
         /\ pc'[t] = "ret"
         /\ clients'[c].cancelled_ /\ clients[c].cancelled_
         /\ clients'[c].active_contexts_ = clients[c].active_contexts_]_vars

\* The pcs of a local GetElement call that has passed the cancelled check.
PastLocalCheckPcs == {"l_getworker", "l_call"}

\* C14: a local GetElement call that has passed the cancelled check does
\* not hold the client lock, so a TryCancel() never waits for it; the
\* TryCancel() that runs meanwhile changes nothing of that call, and the
\* call, once at the worker, returns what GetElementResult gives although
\* the client is cancelled by then.
C14_LocalCancelLeavesCallsAlone ==
  /\ [](\A t \in Threads :
         (InLocalClient(t) /\ pc[t] \in PastLocalCheckPcs) =>
           /\ clients[frame[t].cl].mu # t
           /\ Running => ENABLED (L_GetWorker(t) \/ L_Call(t)))
  /\ [][\A t \in Threads :
         LET c == frame[t].cl IN
         /\ (pc[t] = "c_body" /\ pc'[t] # "c_body" /\ c \in LocalClients) =>
              /\ pc'[t] = "ret"
              /\ clients'[c].cancelled_
              /\ \A u \in Threads \ {t} : pc'[u] = pc[u] /\ frame'[u] = frame[u]
         /\ (pc[t] = "l_call" /\ pc'[t] # "l_call" /\ clients[c].cancelled_) =>
              /\ pc'[t] = "ret"
              /\ frame'[t].status = frame'[t].worker_status
              /\ [status |-> frame'[t].status,
                  components |-> frame'[t].components] \in WorkerOutcomes]_vars

\* A TryCancel() on a local client has returned while a GetElement call on
\* the same client is at the worker's GetElementResult.
C14_Witness ==
  \E t, u \in Threads :
    /\ InLocalClient(t) /\ pc[t] = "l_call"
    /\ frame[u].op = "TryCancel" /\ pc[u] = "ret" /\ frame[u].cl = frame[t].cl
    /\ clients[frame[t].cl].cancelled_

\* The pcs of a thread inside AddAndSleepCheck.
ThrottlePcs == {"t_lock", "t_add", "t_sleep"}

\* A GetElement call of thread t on a gRPC client that holds a throttle.
InThrottledClient(t) ==
  /\ frame[t].op = "GetElement" /\ frame[t].cl \in GrpcClients
  /\ clients[frame[t].cl].byte_block_checker_ # 0

\* C15: a GetElement call on a gRPC client that holds a throttle calls
\* AddAndSleepCheck exactly once if it passes the cancelled check: not before
\* the remote call has returned, right after it whatever its status, on the
\* client's throttle and with resp.ByteSizeLong() + req.ByteSizeLong(), which
\* the throttle adds to its count; a call the check rejects never calls it.
C15_ThrottledOncePerCall ==
  /\ [](\A t \in Threads : InThrottledClient(t) =>
         /\ pc[t] \in InFlightPcs \cup ThrottlePcs => frame[t].throttled = 0
         /\ pc[t] \in {"g_decode", "g_lock3", "g_erase"} => frame[t].throttled = 1
         /\ pc[t] \in ThrottlePcs =>
              /\ frame[t].checker = clients[frame[t].cl].byte_block_checker_
              /\ frame[t].bytes = RespByteSize(frame[t].resp) + ReqByteSize)
  /\ [][\A t \in Threads : InThrottledClient(t) =>
         /\ (pc[t] = "g_check" /\ pc'[t] = "ret") => frame'[t].throttled = 0
         /\ (pc[t] = "g_rpc" /\ pc'[t] # "g_rpc") => pc'[t] = "t_lock"
         /\ (pc[t] = "t_add" /\ pc'[t] # "t_add") =>
              checkers'[frame[t].checker].recorded
                = checkers[frame[t].checker].recorded + frame[t].bytes
         /\ (pc[t] \in ThrottlePcs /\ pc'[t] \notin ThrottlePcs) =>
              pc'[t] = "g_decode" /\ frame'[t].throttled = 1
         /\ (pc[t] \in {"g_decode", "g_erase"} /\ pc'[t] = "ret") =>
              frame'[t].throttled = 1]_vars

\* A GetElement call whose remote call failed has been through the throttle
\* once and has returned the failure.
C15_Witness ==
  \E t \in Threads :
    /\ InThrottledClient(t) /\ pc[t] = "ret"
    /\ frame[t].status = "UNAVAILABLE" /\ frame[t].throttled = 1

\* C16: the step of AddAndSleepCheck(b) after the addition, with sum the
\* count it reached and elapsed the time since prev_call_time_micros_: below
\* check_block_size_ it does not sleep and leaves the timestamp; otherwise
\* it asks for a sleep of exactly max(0, expected - elapsed) microseconds,
\* expected = sum * 8 / (max_bandwidth_bps / 10^6), and records a new
\* timestamp when it is done.  (The equation is stated multiplied by
\* max_bandwidth_bps, so that it is exact for an expected time that is not
\* a whole number.)
C16_SleepIsTheShortfall ==
  [][\A t \in Threads :
       LET k == frame[t].checker
           bw == checkers[k].max_bandwidth_bps_
           sum == checkers[k].sum_total_bytes_ + frame[t].bytes
           elapsed == now - checkers[k].prev_call_time_micros_
       IN
       /\ (pc[t] = "t_add" /\ pc'[t] # "t_add") =>
            IF sum < check_block_size_
              THEN /\ pc'[t] # "t_sleep"
                   /\ checkers'[k].prev_call_time_micros_
                        = checkers[k].prev_call_time_micros_
              ELSE IF sum * 8 * 1000000 > elapsed * bw
                THEN /\ pc'[t] = "t_sleep"
                     /\ (frame'[t].wake - now) * bw
                          = sum * 8 * 1000000 - elapsed * bw
                ELSE /\ pc'[t] # "t_sleep"
                     /\ checkers'[k].prev_call_time_micros_ = now
       /\ (pc[t] = "t_sleep" /\ pc'[t] # "t_sleep") =>
            /\ now' >= frame[t].wake
            /\ checkers'[k].prev_call_time_micros_ = now']_vars

\* The pcs at which a thread waits for a client lock, and those at which it
\* holds one (each of the latter releases it in its next step).
ClientLockWaitPcs == {"g_lock1", "g_lock2", "g_lock3", "c_lock", "l_lock"}
ClientLockHeldPcs == {"g_check", "g_reg", "g_erase", "c_body", "l_verify"}

\* C17: while a GetElement call of a gRPC client is in the remote call, it
\* does not hold the client lock: the lock is free, or held by a thread
\* inside one of the short critical sections, and when it is free every
\* thread waiting for it (a TryCancel(), another GetElement) can take it.
C17_NoLockAcrossRemoteCall ==
  \A t \in Threads :
    (Running /\ frame[t].op = "GetElement" /\ pc[t] = "g_rpc") =>
      LET c == frame[t].cl
          holder == clients[c].mu
      IN /\ holder # t
         /\ holder # NoThread =>
              /\ pc[holder] \in ClientLockHeldPcs /\ frame[holder].cl = c
              /\ ENABLED (G_Check(holder) \/ G_Reg(holder) \/ G_Erase(holder)
                          \/ C_Body(holder))
         /\ holder = NoThread =>
              \A u \in Threads \ {t} :
                (frame[u].cl = c /\ pc[u] \in ClientLockWaitPcs) =>
                  ENABLED (G_Lock1(u) \/ G_Lock2(u) \/ G_Lock3(u) \/ C_Lock(u))

\* A TryCancel() holds the lock of a gRPC client while a GetElement call on
\* that client is in the remote call.
C17_Witness ==
  \E t, u \in Threads :
    /\ frame[t].op = "GetElement" /\ pc[t] = "g_rpc"
    /\ frame[u].op = "TryCancel" /\ pc[u] = "c_body"
    /\ frame[u].cl = frame[t].cl /\ clients[frame[t].cl].mu = u

\* A GetElement call of thread t on a gRPC client.
InGrpcClient(t) ==
  frame[t].op = "GetElement" /\ frame[t].cl \in GrpcClients

C19_CheckAndRegisterAtomic ==
  \A t \in Threads :
    (InGrpcClient(t) /\ pc[t] = "g_rpc" /\ clients[frame[t].cl].cancelled_) =>
      frame[t].ctx_cancelled

\* The locks thread t holds: session locks, client locks, throttle locks.
LocksHeld(t) ==
  {<<"session", x>> : x \in {x \in Sessions : session_mu[x] = t}}
  \cup {<<"client", c>> : c \in {c \in ClientIds : clients[c].mu = t}}
  \cup {<<"throttle", k>> : k \in {k \in 1..Len(checkers) : checkers[k].mu = t}}

\* The pcs at which a thread waits for a lock.
LockWaitPcs == ClientLockWaitPcs \cup {"ei_lock", "t_lock"}

\* The step thread t takes next, at any pc inside a call.
StepOf(t) ==
  \/ EI_Lock(t) \/ EI_Check(t) \/ EI_Build(t)
  \/ F_Check(t) \/ F_Make(t) \/ F_New(t) \/ Deleg(t)
  \/ G_Lock1(t) \/ G_Check(t) \/ G_Lock2(t) \/ G_Reg(t) \/ G_Rpc(t)
  \/ T_Lock(t) \/ T_Add(t) \/ T_Wake(t)
  \/ G_Decode(t) \/ G_Lock3(t) \/ G_Erase(t)
  \/ TC_Deref(t) \/ C_Lock(t) \/ C_Body(t)
  \/ L_Lock(t) \/ L_Verify(t) \/ L_GetWorker(t) \/ L_Call(t)

\* C20: no thread waits for a lock while it holds one and no thread holds
\* two (so no cycle of waiting threads can form); a thread inside a call
\* that does not wait for a lock can take its next step; and no call is
\* stopped for good before it returns, so that under fair scheduling every
\* GetElement and TryCancel call returns.
C20_EveryCallCanReturn ==
  \A t \in Threads :
    /\ Cardinality(LocksHeld(t)) <= 1
    /\ pc[t] \in LockWaitPcs => LocksHeld(t) = {}
    /\ (Running /\ pc[t] \notin LockWaitPcs \cup {"idle", "ret"}) => ENABLED StepOf(t)
    /\ pc[t] # "abort"

====
